---- MODULE Spec2Model ----
(***************************************************************************)
(* Booking lifecycle of the flight-booking core: the Booking entity        *)
(* (src/src/core/entities/booking.py), the in-memory repository            *)
(* (src/src/core/repositories/in_memory_repo.py) and BookingService        *)
(* (src/src/core/services/booking_service.py).                             *)
(*                                                                         *)
(* Money is modelled in whole units (the code uses floats; the comparisons *)
(* and the single addition of record_payment are kept as they are).        *)
(* The repository keeps references: an entity obtained with get() and      *)
(* mutated is mutated in the store as well, whether or not update() is     *)
(* reached afterwards.                                                     *)
(***************************************************************************)
EXTENDS Integers, Sequences, FiniteSets, TLC

VARIABLES
    storage,     \* InMemoryRepository._storage: booking_id -> Booking
    priced,      \* ids whose total_price the caller has assigned (price step)
    last,        \* the last call made: operation, arguments, outcome, target before
    script,      \* the caller's sequence of operations (flow specification)
    pc,          \* position in the script: 1..Len(script)+1
    aborted,     \* the script was ended by an uncaught exception
    flights,     \* the flight repository's _storage: flight_number -> Flight
    flight_keys, \* the keys of the flight repository in insertion order
    seating,     \* the seating strategy: its kind and its available_seats
    allocated,   \* every seat a seating strategy has returned so far, in order
    seat_numbers,\* booking_id -> Booking.seat_numbers
    passenger_ids, \* booking_id -> len(Booking.passenger_ids)
    pricing      \* the pricing strategy: its kind and its base_price

\* what the booking lifecycle leaves alone
others == <<flights, flight_keys, seating, allocated, seat_numbers, passenger_ids, pricing>>

vars == <<storage, priced, last, script, pc, aborted, others>>

(* Bounds *)
MaxPrice == 2
MaxPassengers == 1

BookingIds == {"BK-1", "BK-2"}
Amounts == (0 - 1)..(MaxPrice + 1)
Prices == 0..MaxPrice
PassengerCounts == 0..MaxPassengers
FlightIds == {"", "AA100"}

(* BookingStatus *)
PENDING == "PENDING"
CONFIRMED == "CONFIRMED"
PAID == "PAID"
CHECKED_IN == "CHECKED_IN"
COMPLETED == "COMPLETED"
CANCELLED == "CANCELLED"
BookingStatus == {PENDING, CONFIRMED, PAID, CHECKED_IN, COMPLETED, CANCELLED}

(* A Booking: the fields the lifecycle reads and writes. *)
Booking(status, total_price, paid_amount) ==
    [status |-> status, total_price |-> total_price, paid_amount |-> paid_amount]

(* What get() returns for a missing key. *)
NoBooking == [status |-> "None", total_price |-> 0, paid_amount |-> 0]

(* Outcome of a method call on an entity: the entity afterwards, and either *)
(* the value returned or the error raised.                                  *)
Raise(b, e) == [booking |-> b, raised |-> TRUE, err |-> e, ret |-> "None"]
Return(b, r) == [booking |-> b, raised |-> FALSE, err |-> "none", ret |-> r]

(***************************************************************************)
(* Booking entity                                                          *)
(***************************************************************************)

\* Booking.__post_init__: the checks on total_price and paid_amount.
post_init(b) ==
    IF b.total_price < 0 THEN Raise(b, "Total price cannot be negative")
    ELSE IF b.paid_amount < 0 THEN Raise(b, "Paid amount cannot be negative")
    ELSE IF b.paid_amount > b.total_price
         THEN Raise(b, "Paid amount cannot exceed total price")
    ELSE Return(b, "None")

mark_as_confirmed(b) ==
    IF b.status # PENDING THEN Raise(b, "Cannot confirm booking")
    ELSE Return([b EXCEPT !.status = CONFIRMED], "None")

mark_as_paid_unchecked(b) == Return([b EXCEPT !.status = PAID], "None")

mark_as_paid(b) ==
    IF b.status # CONFIRMED THEN Raise(b, "Cannot mark as paid")
    ELSE Return([b EXCEPT !.status = PAID], "None")

mark_as_checked_in_from_confirmed(b) ==
    IF b.status # CONFIRMED THEN Raise(b, "Cannot check in")
    ELSE Return([b EXCEPT !.status = CHECKED_IN], "None")

mark_as_checked_in(b) ==
    IF b.status # PAID THEN Raise(b, "Cannot check in")
    ELSE Return([b EXCEPT !.status = CHECKED_IN], "None")

mark_as_completed_unchecked(b) == Return([b EXCEPT !.status = COMPLETED], "None")

mark_as_completed(b) ==
    IF b.status # CHECKED_IN THEN Raise(b, "Cannot complete")
    ELSE Return([b EXCEPT !.status = COMPLETED], "None")

cancel_any(b) ==
    IF b.status = CANCELLED THEN Raise(b, "Cannot cancel booking")
    ELSE Return([b EXCEPT !.status = CANCELLED], "None")

cancel(b) ==
    IF b.status \in {COMPLETED, CANCELLED} THEN Raise(b, "Cannot cancel booking")
    ELSE Return([b EXCEPT !.status = CANCELLED], "None")

is_paid(b) == b.paid_amount >= b.total_price

record_payment_clamped(b, amount) ==
    IF amount <= 0 THEN Raise(b, "Payment amount must be positive")
    ELSE IF b.paid_amount + amount <= b.total_price
         THEN Return([b EXCEPT !.paid_amount = b.paid_amount + amount], "True")
    ELSE Return([b EXCEPT !.paid_amount = b.total_price], "False")

record_payment_fully_paid(b, amount) ==
    IF amount <= 0 THEN Raise(b, "Payment amount must be positive")
    ELSE IF b.paid_amount + amount <= b.total_price
         THEN LET n == [b EXCEPT !.paid_amount = b.paid_amount + amount]
              IN Return(n, IF is_paid(n) THEN "True" ELSE "False")
    ELSE Return(b, "False")

record_payment_unbounded(b, amount) ==
    IF amount <= 0 THEN Raise(b, "Payment amount must be positive")
    ELSE Return([b EXCEPT !.paid_amount = b.paid_amount + amount], "True")

record_payment(b, amount) ==
    IF amount <= 0 THEN Raise(b, "Payment amount must be positive")
    ELSE IF b.paid_amount + amount <= b.total_price
         THEN Return([b EXCEPT !.paid_amount = b.paid_amount + amount], "True")
    ELSE Return(b, "False")

(***************************************************************************)
(* InMemoryRepository                                                      *)
(***************************************************************************)

EmptyStorage == [k \in {} |-> NoBooking]

exists(st, id) == id \in DOMAIN st

get(st, id) == IF id \in DOMAIN st THEN st[id] ELSE NoBooking

\* self._storage[entity_id] = entity
Put(st, id, e) == [k \in (DOMAIN st) \cup {id} |-> IF k = id THEN e ELSE st[k]]

(* Outcome of a repository or service call: the store afterwards and the *)
(* value returned or the error raised.                                    *)
SRaise(st, e) == [storage |-> st, raised |-> TRUE, err |-> e, ret |-> "None"]
SReturn(st, r) == [storage |-> st, raised |-> FALSE, err |-> "none", ret |-> r]

add_overwrite(st, id, e) == SReturn(Put(st, id, e), "True")

add(st, id, e) ==
    IF id = "" THEN SRaise(st, "Entity ID cannot be empty")
    ELSE IF id \in DOMAIN st THEN SRaise(st, "already exists")
    ELSE SReturn(Put(st, id, e), "True")

update(st, id, e) ==
    IF id \notin DOMAIN st THEN SRaise(st, "not found")
    ELSE SReturn(Put(st, id, e), "True")

\* a missing id is reported by the return value instead of an error
delete_missing_ignored(st, id) ==
    IF id \notin DOMAIN st THEN SReturn(st, "False")
    ELSE SReturn([k \in (DOMAIN st) \ {id} |-> st[k]], "True")

\* del self._storage[entity_id]
delete(st, id) ==
    IF id \notin DOMAIN st THEN SRaise(st, "not found")
    ELSE SReturn([k \in (DOMAIN st) \ {id} |-> st[k]], "True")

(***************************************************************************)
(* BookingService                                                          *)
(***************************************************************************)

\* the service's own "return True" once the repository call has returned
ThenReturn(u, r) == IF u.raised THEN u ELSE SReturn(u.storage, r)

\* _generate_booking_id draws the id (a uuid prefix); the caller of this
\* operator supplies the drawn value.  _allocate_seats yields one seat per
\* passenger, so Booking.__post_init__ accepts the new booking.
create_booking(st, id, n_passengers, flight_id) ==
    IF n_passengers = 0 THEN SRaise(st, "At least one passenger is required")
    ELSE IF flight_id = "" THEN SRaise(st, "Flight ID is required")
    ELSE LET c == post_init(Booking(PENDING, 0, 0))
         IN IF c.raised THEN SRaise(st, c.err)
            ELSE add(st, id, c.booking)

\* the confirmed booking is never written back
confirm_booking_no_update(st, id) ==
    IF ~exists(st, id) THEN SRaise(st, "Booking not found")
    ELSE LET r == mark_as_confirmed(get(st, id))
         IN IF r.raised THEN SRaise(st, r.err)
            ELSE SReturn(st, "True")

confirm_booking(st, id) ==
    IF ~exists(st, id) THEN SRaise(st, "Booking not found")
    ELSE LET r == mark_as_confirmed(get(st, id))
         IN IF r.raised THEN SRaise(Put(st, id, r.booking), r.err)
            ELSE ThenReturn(update(st, id, r.booking), "True")

pay_booking_no_transition(st, id, amount) ==
    IF ~exists(st, id) THEN SRaise(st, "Booking not found")
    ELSE LET r == record_payment(get(st, id), amount)
         IN IF r.raised THEN SRaise(Put(st, id, r.booking), r.err)
            ELSE ThenReturn(update(st, id, r.booking), "True")

pay_booking_always_paid(st, id, amount) ==
    IF ~exists(st, id) THEN SRaise(st, "Booking not found")
    ELSE LET r == record_payment(get(st, id), amount)
         IN IF r.raised THEN SRaise(Put(st, id, r.booking), r.err)
            ELSE LET m == mark_as_paid(r.booking)
                 IN IF m.raised THEN SRaise(Put(st, id, m.booking), m.err)
                    ELSE ThenReturn(update(st, id, m.booking), "True")

pay_booking_get_or_create(st, id, amount) ==
    LET r == record_payment(get(st, id), amount)
    IN IF r.raised THEN SRaise(st, r.err)
       ELSE SReturn(Put(st, id, r.booking), "True")

\* record_payment and mark_as_paid act on the object the repository holds:
\* what record_payment wrote stays written when mark_as_paid raises.
pay_booking(st, id, amount) ==
    IF ~exists(st, id) THEN SRaise(st, "Booking not found")
    ELSE LET r == record_payment(get(st, id), amount)
         IN IF r.raised THEN SRaise(Put(st, id, r.booking), r.err)
            ELSE IF is_paid(r.booking)
                 THEN LET m == mark_as_paid(r.booking)
                      IN IF m.raised THEN SRaise(Put(st, id, m.booking), m.err)
                         ELSE ThenReturn(update(st, id, m.booking), "True")
                 ELSE ThenReturn(update(st, id, r.booking), "True")

check_in_booking(st, id) ==
    IF ~exists(st, id) THEN SRaise(st, "Booking not found")
    ELSE LET r == mark_as_checked_in(get(st, id))
         IN IF r.raised THEN SRaise(Put(st, id, r.booking), r.err)
            ELSE ThenReturn(update(st, id, r.booking), "True")

cancel_booking(st, id) ==
    IF ~exists(st, id) THEN SRaise(st, "Booking not found")
    ELSE LET r == cancel(get(st, id))
         IN IF r.raised THEN SRaise(Put(st, id, r.booking), r.err)
            ELSE ThenReturn(update(st, id, r.booking), "True")

\* The caller's price step: price = calculate_booking_price(n);
\* booking.total_price = price; booking_repo.update(booking_id, booking).
set_total_price(st, id, price) ==
    IF ~exists(st, id) THEN SRaise(st, "Booking not found")
    ELSE update(st, id, [get(st, id) EXCEPT !.total_price = price])

(***************************************************************************)
(* State machine                                                           *)
(***************************************************************************)

NoCall ==
    [op |-> "none", id |-> "", amt |-> 0, raised |-> FALSE, err |-> "none",
     ret |-> "None", pre |-> NoBooking]

Call(op, id, amt, r, pre) ==
    [op |-> op, id |-> id, amt |-> amt, raised |-> r.raised, err |-> r.err,
     ret |-> r.ret, pre |-> pre]

\* BookingService.__init__ defaults: StandardPricing(base_price=100.0) and
\* SequentialAllocation([]); no flight stored.
InitOthers ==
    /\ flights = EmptyStorage
    /\ flight_keys = <<>>
    /\ seating = [strategy |-> "SEQUENTIAL", available_seats |-> <<>>]
    /\ allocated = <<>>
    /\ seat_numbers = EmptyStorage
    /\ passenger_ids = EmptyStorage
    /\ pricing = [strategy |-> "STANDARD", base_price |-> 100]

Init ==
    /\ storage = EmptyStorage
    /\ priced = {}
    /\ last = NoCall
    /\ script = <<>>
    /\ pc = 1
    /\ aborted = FALSE
    /\ InitOthers

\* A method called on a booking the caller holds; the repository holds the
\* same object.
EntityCall(op, id, amt, r) ==
    /\ storage' = Put(storage, id, r.booking)
    /\ last' = Call(op, id, amt, r, storage[id])
    /\ UNCHANGED <<priced, script, pc, aborted, others>>

\* A BookingService operation.
ServiceCall(op, id, amt, r) ==
    /\ storage' = r.storage
    /\ last' = Call(op, id, amt, r, get(storage, id))
    /\ UNCHANGED <<priced, script, pc, aborted, others>>

\* Booking(...) built by the caller with any status and amounts, then
\* repository.add(booking_id, booking).  add() rejects a stored id whatever
\* the entity is, so one entity stands for all of them there.
Construct ==
    \E id \in BookingIds :
        IF exists(storage, id)
        THEN ServiceCall("Booking", id, 0, add(storage, id, Booking(PENDING, 0, 0)))
        ELSE \E s \in BookingStatus,
                t \in (0 - 1)..MaxPrice, p \in (0 - 1)..(MaxPrice + 1) :
                 LET c == post_init(Booking(s, t, p))
                     r == IF c.raised THEN SRaise(storage, c.err)
                          ELSE add(storage, id, c.booking)
                 IN ServiceCall("Booking", id, 0, r)

MarkAsConfirmed ==
    \E id \in DOMAIN storage :
        EntityCall("mark_as_confirmed", id, 0, mark_as_confirmed(storage[id]))

MarkAsPaid ==
    \E id \in DOMAIN storage :
        EntityCall("mark_as_paid", id, 0, mark_as_paid(storage[id]))

MarkAsCheckedIn ==
    \E id \in DOMAIN storage :
        EntityCall("mark_as_checked_in", id, 0, mark_as_checked_in(storage[id]))

MarkAsCompleted ==
    \E id \in DOMAIN storage :
        EntityCall("mark_as_completed", id, 0, mark_as_completed(storage[id]))

Cancel ==
    \E id \in DOMAIN storage :
        EntityCall("cancel", id, 0, cancel(storage[id]))

RecordPayment ==
    \E id \in DOMAIN storage, amount \in Amounts :
        EntityCall("record_payment", id, amount, record_payment(storage[id], amount))

CreateBooking ==
    \E id \in BookingIds, n \in PassengerCounts, f \in FlightIds :
        ServiceCall("create_booking", id, 0, create_booking(storage, id, n, f))

ConfirmBooking ==
    \E id \in BookingIds :
        ServiceCall("confirm_booking", id, 0, confirm_booking(storage, id))

PayBooking ==
    \E id \in BookingIds, amount \in Amounts :
        ServiceCall("pay_booking", id, amount, pay_booking(storage, id, amount))

CheckInBooking ==
    \E id \in BookingIds :
        ServiceCall("check_in_booking", id, 0, check_in_booking(storage, id))

CancelBooking ==
    \E id \in BookingIds :
        ServiceCall("cancel_booking", id, 0, cancel_booking(storage, id))

\* The price step, taken once per booking, right after its creation.
PriceBooking ==
    \E id \in DOMAIN storage, price \in Prices :
        /\ id \notin priced
        /\ storage[id].status = PENDING
        /\ storage[id].paid_amount = 0
        /\ LET r == set_total_price(storage, id, price)
           IN /\ storage' = r.storage
              /\ last' = Call("set_total_price", id, price, r, storage[id])
        /\ priced' = priced \cup {id}
        /\ UNCHANGED <<script, pc, aborted, others>>

\* Entity methods, direct construction and service operations, in any order.
Next ==
    \/ Construct
    \/ MarkAsConfirmed
    \/ MarkAsPaid
    \/ MarkAsCheckedIn
    \/ MarkAsCompleted
    \/ Cancel
    \/ RecordPayment
    \/ CreateBooking
    \/ ConfirmBooking
    \/ PayBooking
    \/ CheckInBooking
    \/ CancelBooking

Spec == Init /\ [][Next]_vars

\* BookingService operations only, on bookings priced once after creation.
NextService ==
    \/ CreateBooking
    \/ PriceBooking
    \/ ConfirmBooking
    \/ PayBooking
    \/ CheckInBooking
    \/ CancelBooking

SpecService == Init /\ [][NextService]_vars

(***************************************************************************)
(* The caller's flow: one booking driven through a fixed sequence of       *)
(* operations; an exception that is raised ends the sequence.              *)
(***************************************************************************)

FlowOps == {"set_total_price", "pay_booking", "confirm_booking", "check_in_booking"}

\* create_booking first, then the four other steps in some order
FlowScripts ==
    { <<"create_booking">> \o q :
        q \in { f \in [1..4 -> FlowOps] : \A i, j \in 1..4 : i # j => f[i] # f[j] } }

\* search -> reserve -> create booking -> price -> pay -> confirm -> check-in
DocumentedFlow ==
    <<"create_booking", "set_total_price", "pay_booking", "confirm_booking",
      "check_in_booking">>

\* the order of the Booking lifecycle: confirm before pay
LifecycleFlow ==
    <<"create_booking", "set_total_price", "confirm_booking", "pay_booking",
      "check_in_booking">>

InitFlow ==
    /\ storage = EmptyStorage
    /\ priced = {}
    /\ last = NoCall
    /\ script \in FlowScripts
    /\ pc = 1
    /\ aborted = FALSE
    /\ InitOthers

FlowEnded == aborted \/ pc > Len(script)

FlowStep(op, id, amt, r) ==
    /\ ~FlowEnded
    /\ script[pc] = op
    /\ storage' = r.storage
    /\ last' = Call(op, id, amt, r, get(storage, id))
    /\ aborted' = r.raised
    /\ pc' = IF r.raised THEN pc ELSE pc + 1
    /\ UNCHANGED <<script, others>>

FlowCreate ==
    \E id \in BookingIds, n \in PassengerCounts \ {0} :
        /\ FlowStep("create_booking", id, 0, create_booking(storage, id, n, "AA100"))
        /\ UNCHANGED priced

FlowPrice ==
    \E id \in DOMAIN storage, price \in Prices :
        /\ FlowStep("set_total_price", id, price, set_total_price(storage, id, price))
        /\ priced' = priced \cup {id}

\* pay the full amount: amount = booking.total_price
FlowPay ==
    \E id \in DOMAIN storage :
        /\ FlowStep("pay_booking", id, storage[id].total_price,
                    pay_booking(storage, id, storage[id].total_price))
        /\ UNCHANGED priced

FlowConfirm ==
    \E id \in DOMAIN storage :
        /\ FlowStep("confirm_booking", id, 0, confirm_booking(storage, id))
        /\ UNCHANGED priced

FlowCheckIn ==
    \E id \in DOMAIN storage :
        /\ FlowStep("check_in_booking", id, 0, check_in_booking(storage, id))
        /\ UNCHANGED priced

NextFlow ==
    \/ FlowCreate
    \/ FlowPrice
    \/ FlowPay
    \/ FlowConfirm
    \/ FlowCheckIn

SpecFlow == InitFlow /\ [][NextFlow]_vars

(***************************************************************************)
(* Properties                                                              *)
(***************************************************************************)

Terminal == {COMPLETED, CANCELLED}
MarkOps == {"mark_as_confirmed", "mark_as_paid", "mark_as_checked_in", "mark_as_completed"}
LookupOps == {"confirm_booking", "pay_booking", "check_in_booking", "cancel_booking"}

\* the booking the last call was about, as the repository holds it now
Post == get(storage, last.id)

MarkFrom(op) ==
    CASE op = "mark_as_confirmed" -> PENDING
      [] op = "mark_as_paid" -> CONFIRMED
      [] op = "mark_as_checked_in" -> PAID
      [] op = "mark_as_completed" -> CHECKED_IN

MarkTo(op) ==
    CASE op = "mark_as_confirmed" -> CONFIRMED
      [] op = "mark_as_paid" -> PAID
      [] op = "mark_as_checked_in" -> CHECKED_IN
      [] op = "mark_as_completed" -> COMPLETED

\* C1: each of mark_as_confirmed / mark_as_paid / mark_as_checked_in /
\* mark_as_completed succeeds only from its one source status and then sets
\* its target status; from every other status it raises and the status stays
\* as it was (mark_as_paid on PENDING raises, the booking stays PENDING).
C1_MarkTransitions ==
    last.op \in MarkOps =>
        IF last.pre.status = MarkFrom(last.op)
        THEN ~last.raised /\ Post.status = MarkTo(last.op)
        ELSE last.raised /\ Post.status = last.pre.status

C1_Witness ==
    /\ last.op = "mark_as_paid"
    /\ last.pre.status = PENDING
    /\ last.raised
    /\ Post.status = PENDING

\* C2: cancel() raises and leaves the status when it is COMPLETED or
\* CANCELLED; from PENDING, CONFIRMED, PAID, CHECKED_IN it sets CANCELLED.
C2_Cancel ==
    last.op = "cancel" =>
        IF last.pre.status \in {COMPLETED, CANCELLED}
        THEN last.raised /\ Post.status = last.pre.status
        ELSE ~last.raised /\ Post.status = CANCELLED

C2_Witness ==
    /\ last.op = "cancel"
    /\ last.pre.status = COMPLETED
    /\ last.raised
    /\ Post.status = COMPLETED

\* C3: a stored booking whose status is COMPLETED or CANCELLED keeps that
\* status through every step, service operation or entity method.
C3_TerminalAbsorbing ==
    [][\A id \in DOMAIN storage :
          storage[id].status \in Terminal =>
              /\ id \in DOMAIN storage'
              /\ storage'[id].status = storage[id].status]_vars

C3_Witness ==
    /\ last.op \in LookupOps \cup MarkOps \cup {"cancel"}
    /\ last.pre.status \in Terminal
    /\ Post.status = last.pre.status
    /\ \E id \in DOMAIN storage : storage[id].status = COMPLETED
    /\ \E id \in DOMAIN storage : storage[id].status = CANCELLED

\* C4: every stored booking has 0 <= paid_amount <= total_price, and a
\* record_payment call, accepted, rejected or raising, never lowers
\* paid_amount.
C4_PaidWithinTotal ==
    /\ \A id \in DOMAIN storage :
          /\ 0 <= storage[id].paid_amount
          /\ storage[id].paid_amount <= storage[id].total_price
    /\ last.op = "record_payment" => Post.paid_amount >= last.pre.paid_amount

C4_Witness ==
    /\ last.op = "record_payment"
    /\ last.ret = "False"
    /\ last.pre.paid_amount > 0
    /\ last.pre.paid_amount < last.pre.total_price

\* C5: record_payment(amount > 0) with paid_amount + amount > total_price
\* returns False, does not raise and leaves the booking as it was.
C5_OverpaymentRejected ==
    (/\ last.op = "record_payment"
     /\ last.amt > 0
     /\ last.pre.paid_amount + last.amt > last.pre.total_price)
    => /\ ~last.raised
       /\ last.ret = "False"
       /\ Post = last.pre

C5_Witness ==
    /\ last.op = "record_payment"
    /\ last.amt > 0
    /\ last.pre.paid_amount + last.amt > last.pre.total_price
    /\ last.pre.paid_amount < last.pre.total_price
    /\ last.ret = "False"

\* C6 as stated: record_payment(amount > 0) returns True exactly when the
\* booking is fully paid after the call (read here for a booking that had a
\* balance to pay before the call).
C6_ReturnsFullyPaid ==
    (/\ last.op = "record_payment"
     /\ last.amt > 0
     /\ last.pre.paid_amount < last.pre.total_price)
    => (last.ret = "True" <=> Post.paid_amount >= Post.total_price)

\* C6 amended: record_payment(amount > 0) returns whether the payment was
\* recorded: True exactly when paid_amount + amount <= total_price held
\* before the call, and then paid_amount has grown by amount, whether or not
\* a balance remains; False leaves the booking as it was.
C6_ReturnsRecorded ==
    (last.op = "record_payment" /\ last.amt > 0) =>
        /\ ~last.raised
        /\ last.ret = "True" <=>
               last.pre.paid_amount + last.amt <= last.pre.total_price
        /\ last.ret = "True" =>
               Post = [last.pre EXCEPT !.paid_amount = last.pre.paid_amount + last.amt]
        /\ last.ret # "True" => (last.ret = "False" /\ Post = last.pre)

C6_Witness ==
    /\ last.op = "record_payment"
    /\ last.ret = "True"
    /\ Post.paid_amount = last.pre.paid_amount + last.amt
    /\ Post.paid_amount < Post.total_price

\* C7: under service operations only, a stored booking that is PAID or
\* CHECKED_IN has paid_amount >= total_price, and a pay_booking call that
\* moved a booking to PAID left it with paid_amount >= total_price.
C7_PaidMeansFullyPaid ==
    /\ \A id \in DOMAIN storage :
          storage[id].status \in {PAID, CHECKED_IN} =>
              storage[id].paid_amount >= storage[id].total_price
    /\ (last.op = "pay_booking" /\ last.pre.status # PAID /\ Post.status = PAID)
           => Post.paid_amount >= Post.total_price

C7_Witness ==
    /\ last.op = "pay_booking"
    /\ last.pre.status = CONFIRMED
    /\ last.pre.paid_amount > 0
    /\ last.pre.paid_amount < last.pre.total_price
    /\ Post.status = PAID
    /\ Post.paid_amount = Post.total_price

\* C8: pay_booking(id, amount > 0) on a CONFIRMED booking returns; afterwards
\* the stored booking is PAID if and only if paid_amount >= total_price, an
\* accepted amount has been added to paid_amount, and a partial payment that
\* leaves a balance leaves the booking CONFIRMED.
C8_PayAutoTransition ==
    (last.op = "pay_booking" /\ last.pre.status = CONFIRMED /\ last.amt > 0) =>
        /\ ~last.raised
        /\ Post.status \in {CONFIRMED, PAID}
        /\ Post.status = PAID <=> Post.paid_amount >= Post.total_price
        /\ Post.total_price = last.pre.total_price
        /\ last.pre.paid_amount + last.amt <= last.pre.total_price =>
               Post.paid_amount = last.pre.paid_amount + last.amt
        /\ last.pre.paid_amount + last.amt < last.pre.total_price =>
               Post.status = CONFIRMED

C8_Witness ==
    /\ last.op = "pay_booking"
    /\ last.pre.status = CONFIRMED
    /\ last.amt > 0
    /\ Post.status = CONFIRMED
    /\ Post.paid_amount = last.pre.paid_amount + last.amt
    /\ Post.paid_amount < Post.total_price

\* C9 as stated: the flow create -> price -> pay (full amount) -> confirm ->
\* check-in runs to its end without an exception and leaves the booking
\* CHECKED_IN (read here for a price above zero).
C9_DocumentedFlowCompletes ==
    (/\ script = DocumentedFlow
     /\ FlowEnded
     /\ \A id \in DOMAIN storage : storage[id].total_price > 0)
    => /\ ~aborted
       /\ \A id \in DOMAIN storage : storage[id].status = CHECKED_IN

\* C9 amended: with a positive price the flow create -> price -> confirm ->
\* pay (full amount) -> check-in runs to its end without an exception and
\* leaves the booking CHECKED_IN; in the order price -> pay -> confirm the
\* pay_booking step raises and the booking is still PENDING.
C9_LifecycleFlowCompletes ==
    /\ (/\ script = LifecycleFlow
        /\ FlowEnded
        /\ \A id \in DOMAIN storage : storage[id].total_price > 0)
       => /\ ~aborted
          /\ DOMAIN storage # {}
          /\ \A id \in DOMAIN storage : storage[id].status = CHECKED_IN
    /\ (script = DocumentedFlow /\ FlowEnded)
       => /\ aborted
          /\ script[pc] = "pay_booking"
          /\ last.op = "pay_booking"
          /\ \A id \in DOMAIN storage : storage[id].status = PENDING

C9_Witness ==
    /\ script = LifecycleFlow
    /\ pc > Len(script)
    /\ ~aborted
    /\ last.op = "check_in_booking"
    /\ \E id \in DOMAIN storage :
          /\ storage[id].status = CHECKED_IN
          /\ storage[id].total_price > 0
          /\ storage[id].paid_amount = storage[id].total_price

\* C10: confirm_booking, pay_booking, check_in_booking and cancel_booking
\* called with an id the repository does not hold raise "not found" and
\* leave the repository as it was.
C10_AbsentIdNotFound ==
    [][(last'.op \in LookupOps /\ ~exists(storage, last'.id)) =>
          /\ last'.raised
          /\ last'.err = "Booking not found"
          /\ storage' = storage]_vars

C10_Witness ==
    /\ last.op \in LookupOps
    /\ last.pre = NoBooking
    /\ ~exists(storage, last.id)
    /\ last.err = "Booking not found"
    /\ DOMAIN storage # {}

\* C11: after a BookingService state change that returned, the booking the
\* repository holds under that id carries the new status and paid_amount.
C11_StoredAfterChange ==
    (last.op \in LookupOps /\ ~last.raised) =>
        /\ exists(storage, last.id)
        /\ last.op = "confirm_booking" =>
               storage[last.id] = [last.pre EXCEPT !.status = CONFIRMED]
        /\ last.op = "check_in_booking" =>
               storage[last.id] = [last.pre EXCEPT !.status = CHECKED_IN]
        /\ last.op = "cancel_booking" =>
               storage[last.id] = [last.pre EXCEPT !.status = CANCELLED]
        /\ last.op = "pay_booking" =>
               /\ Post.paid_amount =
                      IF last.pre.paid_amount + last.amt <= last.pre.total_price
                      THEN last.pre.paid_amount + last.amt
                      ELSE last.pre.paid_amount
               /\ Post.status =
                      IF Post.paid_amount >= Post.total_price THEN PAID
                      ELSE last.pre.status

C11_Witness ==
    /\ last.op = "confirm_booking"
    /\ ~last.raised
    /\ last.pre.status = PENDING
    /\ get(storage, last.id).status = CONFIRMED

\* C12: a create_booking that returns adds exactly one booking, PENDING,
\* under an id that was not stored, and changes no stored booking; one that
\* raises (also on a generated id that is already stored) changes nothing.
C12_CreateAddsOneNew ==
    [][last'.op = "create_booking" =>
          IF last'.raised
          THEN storage' = storage
          ELSE /\ ~exists(storage, last'.id)
               /\ DOMAIN storage' = DOMAIN storage \cup {last'.id}
               /\ storage'[last'.id].status = PENDING
               /\ \A k \in DOMAIN storage : storage'[k] = storage[k]]_vars

C12_Witness ==
    /\ last.op = "create_booking"
    /\ last.raised
    /\ last.err = "already exists"
    /\ exists(storage, last.id)
    /\ storage[last.id] = last.pre
    /\ storage[last.id].status # PENDING

(***************************************************************************)
(* Seating strategies (src/src/core/services/seating).  A seat identifier  *)
(* is the sequence of its characters: "10A" is <<"1", "0", "A">>.          *)
(***************************************************************************)

MaxPool == 3

S1A == <<"1", "A">>
S1B == <<"1", "B">>
S1f == <<"1", "f">>
S2C == <<"2", "C">>
S10A == <<"1", "0", "A">>
SeatUniverse == {S1A, S1B, S1f, S2C, S10A}

Range(seq) == {seq[i] : i \in 1..Len(seq)}
NoDuplicates(seq) == \A i, j \in 1..Len(seq) : i # j => seq[i] # seq[j]

\* the lists a strategy may be constructed over: distinct seats, any order
PoolsUpTo(size) ==
    UNION { {q \in [1..n -> SeatUniverse] : NoDuplicates(q)} : n \in 0..size }
Pools == PoolsUpTo(MaxPool)

SeatingStrategies == {"SEQUENTIAL", "WINDOW_PRIORITY", "FAMILY"}
SeatCounts == (0 - 1)..(MaxPool + 1)

\* Outcome of allocate_seats: the pool afterwards, the seats returned or the
\* error raised.
SeatRaise(pool, e) ==
    [available_seats |-> pool, raised |-> TRUE, err |-> e, ret |-> <<>>]
SeatReturn(pool, seats) ==
    [available_seats |-> pool, raised |-> FALSE, err |-> "none", ret |-> seats]

\* only the sign of the count is checked
validate_seat_count_positive_only(pool, count) ==
    IF count <= 0 THEN "Seat count must be positive" ELSE "none"

\* the error validate_seat_count raises, "none" when it returns
validate_seat_count(pool, count) ==
    IF count <= 0 THEN "Seat count must be positive"
    ELSE IF count > Len(pool) THEN "Not enough seats available"
    ELSE "none"

\* list.remove(seat): the first occurrence goes
RECURSIVE ListRemove(_, _)
ListRemove(pool, seat) ==
    IF pool = <<>> THEN <<>>
    ELSE IF Head(pool) = seat THEN Tail(pool)
    ELSE <<Head(pool)>> \o ListRemove(Tail(pool), seat)

mark_seats_as_used_forgotten(pool, seats) == pool

RECURSIVE mark_seats_as_used(_, _)
mark_seats_as_used(pool, seats) ==
    IF seats = <<>> THEN pool
    ELSE mark_seats_as_used(
             IF Head(seats) \in Range(pool) THEN ListRemove(pool, Head(seats))
             ELSE pool,
             Tail(seats))

\* seq[:n] for n >= 0
Take(seq, n) == SubSeq(seq, 1, IF n < Len(seq) THEN n ELSE Len(seq))

SequentialAllocation_allocate_seats(pool, passenger_count) ==
    LET e == validate_seat_count(pool, passenger_count)
    IN IF e # "none" THEN SeatRaise(pool, e)
       ELSE LET allocated_seats == Take(pool, passenger_count)
            IN SeatReturn(mark_seats_as_used(pool, allocated_seats), allocated_seats)

\* str.upper() on the letters seat identifiers end in
Upper(c) ==
    CASE c = "a" -> "A" [] c = "b" -> "B" [] c = "c" -> "C"
      [] c = "d" -> "D" [] c = "e" -> "E" [] c = "f" -> "F"
      [] OTHER -> c

\* the letter is compared as written
is_window_seat_as_written(seat) == seat[Len(seat)] \in {"A", "F"}

is_window_seat(seat) == Upper(seat[Len(seat)]) \in {"A", "F"}

WindowPriority_allocate_seats(pool, passenger_count) ==
    LET e == validate_seat_count(pool, passenger_count)
    IN IF e # "none" THEN SeatRaise(pool, e)
       ELSE LET NotWindow(seat) == ~is_window_seat(seat)
                window_seats == SelectSeq(pool, is_window_seat)
                non_window_seats == SelectSeq(pool, NotWindow)
                from_window == Take(window_seats, passenger_count)
                allocated_seats ==
                    from_window \o
                    Take(non_window_seats, passenger_count - Len(from_window))
            IN SeatReturn(mark_seats_as_used(pool, allocated_seats), allocated_seats)

Digit == {"0", "1", "2", "3", "4", "5", "6", "7", "8", "9"}

\* code point order of the digit characters
Ord(c) ==
    CASE c = "0" -> 0 [] c = "1" -> 1 [] c = "2" -> 2 [] c = "3" -> 3
      [] c = "4" -> 4 [] c = "5" -> 5 [] c = "6" -> 6 [] c = "7" -> 7
      [] c = "8" -> 8 [] c = "9" -> 9

\* "".join(c for c in seat if c.isdigit())
RowNumber(seat) == LET IsDigit(c) == c \in Digit IN SelectSeq(seat, IsDigit)

\* a < b for two strings of digits, as str compares
RECURSIVE StrLess(_, _)
StrLess(a, b) ==
    IF a = <<>> THEN b # <<>>
    ELSE IF b = <<>> THEN FALSE
    ELSE IF Head(a) = Head(b) THEN StrLess(Tail(a), Tail(b))
    ELSE Ord(Head(a)) < Ord(Head(b))

\* sorted(keys)
RECURSIVE Sorted(_)
Sorted(keys) ==
    IF keys = {} THEN <<>>
    ELSE LET least == CHOOSE k \in keys : \A o \in keys \ {k} : StrLess(k, o)
         IN <<least>> \o Sorted(keys \ {least})

\* seats_by_row[row_number]: the pool's seats of that row, in pool order
group_seats_by_row(pool, row_number) ==
    LET InRow(seat) == RowNumber(seat) = row_number IN SelectSeq(pool, InRow)

\* the seats of the rows in the given order, one row after the other
RECURSIVE RowByRow(_, _)
RowByRow(pool, rows) ==
    IF rows = <<>> THEN <<>>
    ELSE group_seats_by_row(pool, Head(rows)) \o RowByRow(pool, Tail(rows))

FamilyAllocation_allocate_seats(pool, passenger_count) ==
    LET e == validate_seat_count(pool, passenger_count)
    IN IF e # "none" THEN SeatRaise(pool, e)
       ELSE LET rows == Sorted({RowNumber(pool[i]) : i \in 1..Len(pool)})
                allocated_seats == Take(RowByRow(pool, rows), passenger_count)
            IN SeatReturn(mark_seats_as_used(pool, allocated_seats), allocated_seats)

\* strategy.allocate_seats(passenger_count), by the strategy's class
allocate_seats(strategy, pool, passenger_count) ==
    CASE strategy = "SEQUENTIAL" ->
             SequentialAllocation_allocate_seats(pool, passenger_count)
      [] strategy = "WINDOW_PRIORITY" ->
             WindowPriority_allocate_seats(pool, passenger_count)
      [] strategy = "FAMILY" ->
             FamilyAllocation_allocate_seats(pool, passenger_count)

\* the booking lifecycle's variables
lifecycle == <<storage, priced, script, pc, aborted>>

InitLifecycle ==
    /\ storage = EmptyStorage
    /\ priced = {}
    /\ script = <<>>
    /\ pc = 1
    /\ aborted = FALSE

\* no allocate_seats call made yet
NoSeatCall ==
    [op |-> "none", id |-> "", amt |-> 0, raised |-> FALSE, err |-> "none",
     ret |-> <<>>, pre |-> <<>>]

\* a strategy of any class constructed over any pool
InitSeating ==
    /\ InitLifecycle
    /\ last = NoSeatCall
    /\ flights = EmptyStorage
    /\ flight_keys = <<>>
    /\ seating \in [strategy : SeatingStrategies, available_seats : Pools]
    /\ allocated = <<>>
    /\ seat_numbers = EmptyStorage
    /\ passenger_ids = EmptyStorage
    /\ pricing = [strategy |-> "STANDARD", base_price |-> 100]

AllocateSeats(strategy) ==
    /\ seating.strategy = strategy
    /\ \E count \in SeatCounts :
          LET r == allocate_seats(strategy, seating.available_seats, count)
          IN /\ seating' = [seating EXCEPT !.available_seats = r.available_seats]
             /\ allocated' = allocated \o r.ret
             /\ last' = [op |-> "allocate_seats", id |-> strategy, amt |-> count,
                         raised |-> r.raised, err |-> r.err, ret |-> r.ret,
                         pre |-> seating.available_seats]
    /\ UNCHANGED <<lifecycle, flights, flight_keys, seat_numbers, passenger_ids, pricing>>

SequentialAllocate == AllocateSeats("SEQUENTIAL")
WindowPriorityAllocate == AllocateSeats("WINDOW_PRIORITY")
FamilyAllocate == AllocateSeats("FAMILY")

NextSeating ==
    \/ SequentialAllocate
    \/ WindowPriorityAllocate
    \/ FamilyAllocate

SpecSeating == InitSeating /\ [][NextSeating]_vars

\* C20: over a pool of distinct seats no strategy returns a seat twice; a
\* returned seat is no longer in the pool; a call that returns gives exactly
\* passenger_count seats of the pool and shrinks the pool by that many.
C20_AtMostOnceAllocation ==
    /\ NoDuplicates(allocated)
    /\ Range(allocated) \cap Range(seating.available_seats) = {}
    /\ (last.op = "allocate_seats" /\ ~last.raised) =>
           /\ Len(last.ret) = last.amt
           /\ Range(last.ret) \subseteq Range(last.pre)
           /\ Len(seating.available_seats) = Len(last.pre) - last.amt
           /\ Range(seating.available_seats) = Range(last.pre) \ Range(last.ret)

C20_Witness ==
    /\ last.op = "allocate_seats"
    /\ ~last.raised
    /\ Len(allocated) > Len(last.ret)
    /\ Len(last.ret) >= 1
    /\ seating.available_seats # <<>>

(***************************************************************************)
(* BookingService.create_booking with its seat_numbers argument and the    *)
(* injected strategies.                                                    *)
(***************************************************************************)

DigitChar(d) ==
    CASE d = 0 -> "0" [] d = 1 -> "1" [] d = 2 -> "2" [] d = 3 -> "3"
      [] d = 4 -> "4" [] d = 5 -> "5" [] d = 6 -> "6" [] d = 7 -> "7"
      [] d = 8 -> "8" [] d = 9 -> "9"

\* str(n) for n >= 0
RECURSIVE Str(_)
Str(n) ==
    IF n < 10 THEN <<DigitChar(n)>> ELSE Str(n \div 10) \o <<DigitChar(n % 10)>>

\* BookingService._allocate_seats: [f"{i+1}A" for i in range(seat_count)]
service_allocate_seats(seat_count) ==
    [i \in 1..seat_count |-> Str(i) \o <<"A">>]

\* the seat_numbers create_booking passes to Booking(...): None and [] both
\* take the generated seats
booking_seat_numbers(n_passengers, seats) ==
    IF seats = <<>> THEN service_allocate_seats(n_passengers) ELSE seats

create_booking_with_seats(st, id, n_passengers, flight_id, seats) ==
    IF n_passengers = 0 THEN SRaise(st, "At least one passenger is required")
    ELSE IF flight_id = "" THEN SRaise(st, "Flight ID is required")
    ELSE IF Len(booking_seat_numbers(n_passengers, seats)) # n_passengers
         THEN SRaise(st, "Number of passengers must match number of seats")
    ELSE create_booking(st, id, n_passengers, flight_id)

\* seat_numbers a caller passes: none, or a list of its own
SeatLists == {<<>>, <<S2C>>, <<S1A, S1B>>}

\* base prices a StandardPricing is constructed with
BasePrices == {0, 100, 250}

\* the pools a request of up to MaxPassengers seats can exhaust or not
CreatePools == PoolsUpTo(MaxPassengers + 1)

InitCreate ==
    /\ InitLifecycle
    /\ last = NoCall
    /\ flights = EmptyStorage
    /\ flight_keys = <<>>
    /\ seating \in [strategy : SeatingStrategies, available_seats : CreatePools]
    /\ allocated = <<>>
    /\ seat_numbers = EmptyStorage
    /\ passenger_ids = EmptyStorage
    /\ pricing \in [strategy : {"STANDARD"}, base_price : BasePrices \ {0}]

\* create_booking(passenger_ids, flight_id, seat_numbers).  The strategies
\* are not touched; allocated collects the seats _allocate_seats gave to the
\* bookings created.
CreateBookingWithSeats ==
    \E id \in BookingIds, n \in PassengerCounts, f \in FlightIds, seats \in SeatLists :
        LET r == create_booking_with_seats(storage, id, n, f, seats)
            given == booking_seat_numbers(n, seats)
        IN /\ storage' = r.storage
           /\ seat_numbers' = IF r.raised THEN seat_numbers ELSE Put(seat_numbers, id, given)
           /\ passenger_ids' = IF r.raised THEN passenger_ids ELSE Put(passenger_ids, id, n)
           /\ allocated' = IF r.raised \/ seats # <<>> THEN allocated ELSE allocated \o given
           /\ last' = [op |-> "create_booking", id |-> id, amt |-> n,
                       raised |-> r.raised, err |-> r.err, ret |-> r.ret,
                       pre |-> get(storage, id), flight_id |-> f,
                       seats |-> seats, pool |-> seating.available_seats]
           /\ UNCHANGED <<priced, script, pc, aborted, flights, flight_keys, seating, pricing>>

NextCreate ==
    \/ CreateBookingWithSeats

SpecCreate == InitCreate /\ [][NextCreate]_vars

\* C13: a booking created without seat_numbers gets the seats the injected
\* seating strategy allocates for len(passenger_ids), and those seats leave
\* the strategy's pool; no seat is given to two bookings; the creation fails
\* when the pool holds fewer seats than there are passengers.
C13_SeatsFromStrategy ==
    /\ (/\ last.op = "create_booking"
        /\ last.seats = <<>>
        /\ last.amt > 0
        /\ last.flight_id # ""
        /\ last.pre = NoBooking) =>
           LET a == allocate_seats(seating.strategy, last.pool, last.amt)
           IN IF a.raised THEN last.raised
              ELSE /\ ~last.raised
                   /\ seat_numbers[last.id] = a.ret
                   /\ seating.available_seats = a.available_seats
    /\ NoDuplicates(allocated)

\* two bookings created without seat_numbers hold the same seat, and the
\* strategy's pool is as it was constructed
C13_Witness ==
    /\ last.op = "create_booking"
    /\ ~last.raised
    /\ last.seats = <<>>
    /\ \E other \in DOMAIN seat_numbers \ {last.id} :
           Range(seat_numbers[other]) \cap Range(seat_numbers[last.id]) # {}
    /\ ~NoDuplicates(allocated)
    /\ seating.available_seats = last.pool

(***************************************************************************)
(* Pricing strategies (src/src/core/services/pricing).  base_price is a    *)
(* whole amount; a price is counted in hundredths, so that round(x, 2) is  *)
(* a rounding to an integer.                                               *)
(***************************************************************************)

PricingStrategies == {"STANDARD", "DYNAMIC", "SEASONAL", "LOYALTY"}
NumPassengers == 0..(MaxPassengers + 1)
OccupancyRates == {0 - 1, 0, 50, 75, 100, 101}
DaysUntilDeparture == {0 - 1, 0, 1, 10, 30}
PassengerTypes == {"ADULT", "CHILD", "INFANT", "SENIOR"}
NoMonth == 0
Months == 1..12
NoTier == "None"

PRaise(e) == [raised |-> TRUE, err |-> e, ret |-> 0]
PReturn(price) == [raised |-> FALSE, err |-> "none", ret |-> price]

\* days_until_departure is not looked at
validate_inputs_without_days(num_passengers, occupancy_rate, days_until_departure) ==
    IF num_passengers <= 0 THEN "Number of passengers must be positive"
    ELSE IF ~(0 <= occupancy_rate /\ occupancy_rate <= 100)
         THEN "Occupancy rate must be between 0 and 100"
    ELSE "none"

\* the error validate_inputs raises, "none" when it returns
validate_inputs(num_passengers, occupancy_rate, days_until_departure) ==
    IF num_passengers <= 0 THEN "Number of passengers must be positive"
    ELSE IF ~(0 <= occupancy_rate /\ occupancy_rate <= 100)
         THEN "Occupancy rate must be between 0 and 100"
    ELSE IF days_until_departure < 0 THEN "Days until departure cannot be negative"
    ELSE "none"

\* multipliers.get(passenger_type, 1.0), in hundredths
get_passenger_type_multiplier(passenger_type) ==
    CASE passenger_type = "ADULT" -> 100
      [] passenger_type = "CHILD" -> 75
      [] passenger_type = "INFANT" -> 50
      [] OTHER -> 100

\* a / b (a >= 0, b > 0) rounded to the nearest integer, halves to the even one
RoundDiv(a, b) ==
    LET q == a \div b
        r == a % b
    IN IF 2 * r < b THEN q
       ELSE IF 2 * r > b THEN q + 1
       ELSE IF q % 2 = 0 THEN q ELSE q + 1

StandardPricing_calculate_price(base_price, num_passengers, occupancy_rate, days_until_departure, passenger_type) ==
    LET e == validate_inputs(num_passengers, occupancy_rate, days_until_departure)
    IN IF e # "none" THEN PRaise(e)
       ELSE PReturn(base_price * get_passenger_type_multiplier(passenger_type))

\* days_until_departure enters the formula as given, 0 included
DynamicPricing_calculate_price_days_as_given(base_price, num_passengers, occupancy_rate, days_until_departure, passenger_type) ==
    LET e == validate_inputs(num_passengers, occupancy_rate, days_until_departure)
    IN IF e # "none" THEN PRaise(e)
       ELSE PReturn(RoundDiv(base_price * (200 + occupancy_rate)
                                 * (days_until_departure + 26)
                                 * get_passenger_type_multiplier(passenger_type),
                             200 * (days_until_departure + 1)))

\* base_price * (1 + occupancy_rate / 100 * 0.5) * (1 + 100 / (days + 1) * 0.25)
\*   = base_price * (200 + occupancy_rate) / 200 * (days + 26) / (days + 1)
DynamicPricing_calculate_price(base_price, num_passengers, occupancy_rate, days_until_departure, passenger_type) ==
    LET e == validate_inputs(num_passengers, occupancy_rate, days_until_departure)
        days == IF days_until_departure = 0 THEN 1 ELSE days_until_departure
    IN IF e # "none" THEN PRaise(e)
       ELSE PReturn(RoundDiv(base_price * (200 + occupancy_rate) * (days + 26)
                                 * get_passenger_type_multiplier(passenger_type),
                             200 * (days + 1)))

\* SEASONAL_MULTIPLIERS, in hundredths
SEASONAL_MULTIPLIERS(month) ==
    CASE month \in {1, 7, 8, 12} -> 130
      [] month = 2 -> 85
      [] month \in {3, 4, 5, 6, 9, 10} -> 115
      [] month = 11 -> 100

\* a missing or out-of-range month is priced with the multiplier 1.0
SeasonalPricing_calculate_price_defaulting(base_price, num_passengers, occupancy_rate, days_until_departure, passenger_type, departure_month) ==
    LET e == validate_inputs(num_passengers, occupancy_rate, days_until_departure)
        seasonal_multiplier ==
            IF departure_month \in 1..12 THEN SEASONAL_MULTIPLIERS(departure_month)
            ELSE 100
    IN IF e # "none" THEN PRaise(e)
       ELSE PReturn(RoundDiv(base_price * seasonal_multiplier
                                 * get_passenger_type_multiplier(passenger_type),
                             100))

SeasonalPricing_calculate_price(base_price, num_passengers, occupancy_rate, days_until_departure, passenger_type, departure_month) ==
    LET e == validate_inputs(num_passengers, occupancy_rate, days_until_departure)
    IN IF e # "none" THEN PRaise(e)
       ELSE IF departure_month = NoMonth
               \/ ~(1 <= departure_month /\ departure_month <= 12)
            THEN PRaise("Valid departure_month (1-12) is required for seasonal pricing")
       ELSE PReturn(RoundDiv(base_price * SEASONAL_MULTIPLIERS(departure_month)
                                 * get_passenger_type_multiplier(passenger_type),
                             100))

\* LOYALTY_DISCOUNTS[LoyaltyTier[loyalty_tier.upper()]], in hundredths; BRONZE
\* for None and for a name that is no tier
LOYALTY_DISCOUNTS(loyalty_tier) ==
    CASE loyalty_tier \in {"SILVER", "silver"} -> 5
      [] loyalty_tier \in {"GOLD", "gold"} -> 10
      [] loyalty_tier \in {"PLATINUM", "platinum"} -> 15
      [] OTHER -> 0

LoyaltyPricing_calculate_price(base_price, num_passengers, occupancy_rate, days_until_departure, passenger_type, loyalty_tier) ==
    LET e == validate_inputs(num_passengers, occupancy_rate, days_until_departure)
    IN IF e # "none" THEN PRaise(e)
       ELSE PReturn(RoundDiv(base_price * get_passenger_type_multiplier(passenger_type)
                                 * (100 - LOYALTY_DISCOUNTS(loyalty_tier)),
                             100))

\* self.pricing_strategy.calculate_price(num_passengers, occupancy_rate,
\* days_until_departure, passenger_type): four arguments, whatever the class,
\* so departure_month and loyalty_tier keep their default None
calculate_price(p, num_passengers, occupancy_rate, days_until_departure, passenger_type) ==
    CASE p.strategy = "STANDARD" ->
             StandardPricing_calculate_price(p.base_price, num_passengers,
                 occupancy_rate, days_until_departure, passenger_type)
      [] p.strategy = "DYNAMIC" ->
             DynamicPricing_calculate_price(p.base_price, num_passengers,
                 occupancy_rate, days_until_departure, passenger_type)
      [] p.strategy = "SEASONAL" ->
             SeasonalPricing_calculate_price(p.base_price, num_passengers,
                 occupancy_rate, days_until_departure, passenger_type, NoMonth)
      [] p.strategy = "LOYALTY" ->
             LoyaltyPricing_calculate_price(p.base_price, num_passengers,
                 occupancy_rate, days_until_departure, passenger_type, NoTier)

calculate_booking_price(p, num_passengers, occupancy_rate, days_until_departure, passenger_type) ==
    LET price_per_passenger ==
            calculate_price(p, num_passengers, occupancy_rate,
                            days_until_departure, passenger_type)
    IN IF price_per_passenger.raised THEN price_per_passenger
       ELSE PReturn(price_per_passenger.ret * num_passengers)

\* C14: the booking create_booking returns is PENDING and carries the price
\* of the injected pricing strategy for its passengers: with
\* StandardPricing(P) and ADULT passengers, P for each of them.
C14_CreatedWithPrice ==
    (last.op = "create_booking" /\ ~last.raised) =>
        /\ Post.status = PENDING
        /\ LET price == calculate_booking_price(pricing, last.amt, 50, 30, "ADULT")
           IN ~price.raised /\ Post.total_price * 100 = price.ret

\* a booking of one passenger created under StandardPricing(250) holds
\* total_price 0
C14_Witness ==
    /\ last.op = "create_booking"
    /\ ~last.raised
    /\ last.amt = 1
    /\ pricing = [strategy |-> "STANDARD", base_price |-> 250]
    /\ Post.status = PENDING
    /\ Post.total_price = 0

\* a BookingService over any of the four pricing strategies
InitPricing ==
    /\ InitLifecycle
    /\ last = NoCall
    /\ flights = EmptyStorage
    /\ flight_keys = <<>>
    /\ seating = [strategy |-> "SEQUENTIAL", available_seats |-> <<>>]
    /\ allocated = <<>>
    /\ seat_numbers = EmptyStorage
    /\ passenger_ids = EmptyStorage
    /\ pricing \in [strategy : PricingStrategies, base_price : BasePrices]

\* set_pricing_strategy(strategy); "None" stands for the argument None
SetPricingStrategy ==
    \E strategy \in PricingStrategies \cup {"None"}, base_price \in BasePrices :
        /\ pricing' = IF strategy = "None" THEN pricing
                      ELSE [strategy |-> strategy, base_price |-> base_price]
        /\ last' = [op |-> "set_pricing_strategy", id |-> strategy, amt |-> 0,
                    raised |-> strategy = "None",
                    err |-> IF strategy = "None"
                            THEN "Pricing strategy cannot be None" ELSE "none",
                    ret |-> 0, pre |-> pricing.base_price,
                    occupancy_rate |-> 0, days_until_departure |-> 0,
                    passenger_type |-> "ADULT"]
        /\ UNCHANGED <<lifecycle, flights, flight_keys, seating, allocated,
                       seat_numbers, passenger_ids>>

CalculateBookingPrice ==
    \E n \in NumPassengers, occ \in OccupancyRates, days \in DaysUntilDeparture,
       ptype \in PassengerTypes :
        LET r == calculate_booking_price(pricing, n, occ, days, ptype)
        IN /\ last' = [op |-> "calculate_booking_price", id |-> pricing.strategy,
                       amt |-> n, raised |-> r.raised, err |-> r.err,
                       ret |-> r.ret, pre |-> pricing.base_price,
                       occupancy_rate |-> occ, days_until_departure |-> days,
                       passenger_type |-> ptype]
           /\ UNCHANGED <<lifecycle, others>>

NextPricing ==
    \/ SetPricingStrategy
    \/ CalculateBookingPrice

SpecPricing == InitPricing /\ [][NextPricing]_vars

\* the arguments validate_inputs accepts
ValidPricingCall ==
    /\ last.op = "calculate_booking_price"
    /\ last.amt > 0
    /\ 0 <= last.occupancy_rate
    /\ last.occupancy_rate <= 100
    /\ last.days_until_departure >= 0

\* the per-passenger prices the injected strategy gives for the last call's
\* arguments: one price, or for SeasonalPricing one for each departure month
PerPassengerPrices ==
    IF pricing.strategy = "SEASONAL"
    THEN {SeasonalPricing_calculate_price(pricing.base_price, last.amt,
              last.occupancy_rate, last.days_until_departure,
              last.passenger_type, month).ret : month \in Months}
    ELSE {calculate_price(pricing, last.amt, last.occupancy_rate,
              last.days_until_departure, last.passenger_type).ret}

\* C15: whichever of the four pricing strategies is injected, for valid
\* arguments calculate_booking_price returns without raising, and returns
\* the strategy's per-passenger price times num_passengers.
C15_EveryStrategyPrices ==
    ValidPricingCall =>
        /\ ~last.raised
        /\ \E price \in PerPassengerPrices : last.ret = price * last.amt

\* under SeasonalPricing a call with valid arguments has raised
C15_Witness ==
    /\ ValidPricingCall
    /\ pricing.strategy = "SEASONAL"
    /\ last.amt = 2
    /\ last.raised
    /\ last.err = "Valid departure_month (1-12) is required for seasonal pricing"

(***************************************************************************)
(* Flight and FlightService.  A city name is the sequence of its           *)
(* characters, so that str.lower() is computed character by character.     *)
(***************************************************************************)

MaxSeats == 3

SCHEDULED == "SCHEDULED"
FLIGHT_CANCELLED == "CANCELLED"
FlightStatus == {SCHEDULED, FLIGHT_CANCELLED}

FlightNumbers == {"AA100", "BA200"}
NoSuchFlight == "ZZ999"
Counts == (0 - 1)..(MaxSeats + 1)

City_NYC == <<"N", "Y", "C">>
City_nyc == <<"n", "y", "c">>
City_LAX == <<"L", "A", "X">>
City_Lax == <<"L", "a", "x">>
City_BOS == <<"B", "O", "S">>

Flight(origin, destination, total_seats, available_seats, status) ==
    [origin |-> origin, destination |-> destination, total_seats |-> total_seats,
     available_seats |-> available_seats, status |-> status]

\* stands for the None that repository.get returns
NoFlight == Flight(<<>>, <<>>, 0, 0, "None")

FRaise(f, e) == [flight |-> f, raised |-> TRUE, err |-> e, ret |-> "None"]
FReturn(f, r) == [flight |-> f, raised |-> FALSE, err |-> "none", ret |-> r]

\* the error Flight.__post_init__ raises, "none" when it accepts the flight;
\* departs_first says whether departure_time < arrival_time
Flight_post_init(flight_number, f, departs_first) ==
    IF flight_number = "" THEN "Flight number cannot be empty"
    ELSE IF f.origin = f.destination THEN "Origin and destination must be different"
    ELSE IF ~departs_first THEN "Departure time must be before arrival time"
    ELSE IF f.total_seats <= 0 THEN "Total seats must be positive"
    ELSE IF f.available_seats > f.total_seats
         THEN "Available seats cannot exceed total seats"
    ELSE IF f.available_seats < 0 THEN "Available seats cannot be negative"
    ELSE "none"

Flight_reserve_seat_unchecked(f, count) ==
    IF count <= 0 THEN FRaise(f, "Reservation count must be positive")
    ELSE FReturn([f EXCEPT !.available_seats = f.available_seats - count], "True")

Flight_reserve_seat(f, count) ==
    IF count <= 0 THEN FRaise(f, "Reservation count must be positive")
    ELSE IF f.available_seats >= count
         THEN FReturn([f EXCEPT !.available_seats = f.available_seats - count], "True")
    ELSE FReturn(f, "False")

\* one seat is released whatever the count
Flight_cancel_reservation_single(f, count) ==
    IF count <= 0 THEN FRaise(f, "Cancellation count must be positive")
    ELSE IF f.available_seats + count <= f.total_seats
         THEN FReturn([f EXCEPT !.available_seats = f.available_seats + 1], "True")
    ELSE FReturn(f, "False")

Flight_cancel_reservation(f, count) ==
    IF count <= 0 THEN FRaise(f, "Cancellation count must be positive")
    ELSE IF f.available_seats + count <= f.total_seats
         THEN FReturn([f EXCEPT !.available_seats = f.available_seats + count], "True")
    ELSE FReturn(f, "False")

\* FlightService.add_flight: repository.add, its ValueError re-raised
add_flight(st, flight_number, f) ==
    LET r == add(st, flight_number, f)
    IN IF r.raised THEN SRaise(st, "Failed to add flight") ELSE SReturn(r.storage, "True")

\* the service's tail: update only "if success", then "return success"
UpdateIfSuccess(st, flight_number, r) ==
    IF r.raised THEN SRaise(Put(st, flight_number, r.flight), r.err)
    ELSE IF r.ret = "True" THEN ThenReturn(update(st, flight_number, r.flight), "True")
    ELSE SReturn(Put(st, flight_number, r.flight), "False")

FlightService_reserve_seats(st, flight_number, seat_count) ==
    IF ~exists(st, flight_number) THEN SRaise(st, "Flight not found")
    ELSE UpdateIfSuccess(st, flight_number,
                         Flight_reserve_seat(st[flight_number], seat_count))

\* a release that does not fit fills the flight up
FlightService_cancel_reservation_clamped(st, flight_number, seat_count) ==
    IF ~exists(st, flight_number) THEN SRaise(st, "Flight not found")
    ELSE LET f == st[flight_number]
             r == Flight_cancel_reservation(f, seat_count)
         IN IF ~r.raised /\ r.ret = "False"
            THEN SReturn(Put(st, flight_number,
                             [f EXCEPT !.available_seats = f.total_seats]), "False")
            ELSE UpdateIfSuccess(st, flight_number, r)

FlightService_cancel_reservation(st, flight_number, seat_count) ==
    IF ~exists(st, flight_number) THEN SRaise(st, "Flight not found")
    ELSE UpdateIfSuccess(st, flight_number,
                         Flight_cancel_reservation(st[flight_number], seat_count))

\* the call before the last one: what it was, and the seats its flight had
\* available before it
NoPrev == [op |-> "none", id |-> "", amt |-> 0, raised |-> FALSE, ret |-> "None",
           available_seats |-> 0]
PrevOf(l) ==
    [op |-> l.op, id |-> l.id, amt |-> l.amt, raised |-> l.raised, ret |-> l.ret,
     available_seats |-> l.pre.available_seats]

NoFlightCall ==
    [op |-> "none", id |-> "", amt |-> 0, raised |-> FALSE, err |-> "none",
     ret |-> "None", pre |-> NoFlight, prev |-> NoPrev]

InitFlight ==
    /\ InitLifecycle
    /\ last = NoFlightCall
    /\ flights = [k \in {} |-> NoFlight]
    /\ flight_keys = <<>>
    /\ seating = [strategy |-> "SEQUENTIAL", available_seats |-> <<>>]
    /\ allocated = <<>>
    /\ seat_numbers = EmptyStorage
    /\ passenger_ids = EmptyStorage
    /\ pricing = [strategy |-> "STANDARD", base_price |-> 100]

\* what every flight action leaves alone
flight_frame == <<lifecycle, seating, allocated, seat_numbers, passenger_ids, pricing>>

\* a call on the flight repository's content; flight_keys keeps the order
\* in which the dict got its keys.  remember says whether the call before
\* is kept, as the claims about two calls in a row need it.
FlightCall(op, id, amt, r, remember) ==
    /\ flights' = r.storage
    /\ flight_keys' = IF id \in DOMAIN r.storage /\ id \notin DOMAIN flights
                      THEN Append(flight_keys, id) ELSE flight_keys
    /\ last' = [op |-> op, id |-> id, amt |-> amt, raised |-> r.raised,
                err |-> r.err, ret |-> r.ret,
                pre |-> IF exists(flights, id) THEN flights[id] ELSE NoFlight,
                prev |-> IF remember THEN PrevOf(last) ELSE NoPrev]
    /\ UNCHANGED flight_frame

\* Flight(...) built by the caller, then FlightService.add_flight(flight); a
\* flight __post_init__ rejects is never added.  add() rejects a stored
\* number whatever the flight is, so one flight stands for all of them there.
AddFlightOf(numbers, origins, destinations, totals, statuses, times, remember) ==
    \E n \in numbers :
        IF exists(flights, n)
        THEN FlightCall("add_flight", n, 0, add_flight(flights, n, flights[n]), remember)
        ELSE \E o \in origins, d \in destinations, t \in totals,
                a \in (0 - 1)..(MaxSeats + 1), s \in statuses,
                departs_first \in times :
                 LET f == Flight(o, d, t, a, s)
                     e == Flight_post_init(n, f, departs_first)
                 IN FlightCall("add_flight", n, 0,
                               IF e # "none" THEN SRaise(flights, e)
                               ELSE add_flight(flights, n, f),
                               remember)

AddFlight ==
    AddFlightOf({"AA100"}, {City_NYC}, {City_LAX, City_NYC}, 0..MaxSeats,
                FlightStatus, BOOLEAN, TRUE)

\* a Flight method called on a flight the repository holds
FlightMethod(op, id, amt, r) ==
    FlightCall(op, id, amt,
               IF r.raised THEN SRaise(Put(flights, id, r.flight), r.err)
               ELSE SReturn(Put(flights, id, r.flight), r.ret),
               TRUE)

ReserveSeat ==
    \E id \in DOMAIN flights, count \in Counts :
        FlightMethod("reserve_seat", id, count, Flight_reserve_seat(flights[id], count))

CancelReservation ==
    \E id \in DOMAIN flights, count \in Counts :
        FlightMethod("cancel_reservation", id, count,
                     Flight_cancel_reservation(flights[id], count))

ServiceReserveSeats(numbers, remember) ==
    \E id \in numbers, count \in Counts :
        FlightCall("FlightService.reserve_seats", id, count,
                   FlightService_reserve_seats(flights, id, count), remember)

ServiceCancelReservation(numbers, remember) ==
    \E id \in numbers, count \in Counts :
        FlightCall("FlightService.cancel_reservation", id, count,
                   FlightService_cancel_reservation(flights, id, count), remember)

ReserveSeats == ServiceReserveSeats({"AA100", NoSuchFlight}, TRUE)
CancelSeats == ServiceCancelReservation({"AA100", NoSuchFlight}, TRUE)

NextFlight ==
    \/ AddFlight
    \/ ReserveSeat
    \/ CancelReservation
    \/ ReserveSeats
    \/ CancelSeats

SpecFlight == InitFlight /\ [][NextFlight]_vars

\* C16: every stored flight keeps 0 <= available_seats <= total_seats, over
\* every sequence of reserve_seat and cancel_reservation calls, failing and
\* raising ones included.
C16_SeatsWithinCapacity ==
    \A k \in DOMAIN flights :
        /\ 0 <= flights[k].available_seats
        /\ flights[k].available_seats <= flights[k].total_seats

\* a flight emptied by reserve_seat after a cancel_reservation had filled it
C16_Witness ==
    /\ last.op = "reserve_seat"
    /\ last.ret = "True"
    /\ last.prev.op = "cancel_reservation"
    /\ last.prev.ret = "True"
    /\ last.pre.available_seats = last.pre.total_seats
    /\ flights[last.id].available_seats = 0

\* the last two calls were reserve_seat(n) and then cancel_reservation(n) on
\* the same flight, n > 0
RoundTrip ==
    /\ last.op = "cancel_reservation"
    /\ last.prev.op = "reserve_seat"
    /\ last.prev.id = last.id
    /\ last.prev.amt = last.amt
    /\ last.amt > 0

\* C17 as stated: for every flight and every n > 0, reserve_seat(n) followed
\* by cancel_reservation(n) leaves available_seats at the value it had
\* before the two calls.
C17_RoundTripRestores ==
    RoundTrip => flights[last.id].available_seats = last.prev.available_seats

\* C17 amended: the round trip restores available_seats when reserve_seat(n)
\* returned True, and then cancel_reservation(n) returns True too; when
\* reserve_seat(n) returned False the flight was left as it was, and
\* cancel_reservation(n) adds n seats if they fit under total_seats.
C17_ReservedRoundTripRestores ==
    RoundTrip =>
        IF last.prev.ret = "True"
        THEN /\ last.ret = "True"
             /\ flights[last.id].available_seats = last.prev.available_seats
        ELSE /\ last.prev.available_seats < last.amt
             /\ flights[last.id].available_seats =
                    IF last.prev.available_seats + last.amt <= last.pre.total_seats
                    THEN last.prev.available_seats + last.amt
                    ELSE last.prev.available_seats

\* both halves: a round trip of two seats that restored the flight
C17_Witness ==
    /\ RoundTrip
    /\ last.amt = 2
    /\ last.prev.ret = "True"
    /\ last.ret = "True"
    /\ flights[last.id].available_seats = last.prev.available_seats

\* C18: a FlightService.reserve_seats or cancel_reservation call that does
\* not succeed (unknown flight number, non-positive count, more seats asked
\* than available, a release that would exceed total_seats) leaves the stored
\* flight as it was; a call that succeeds returns True and moves the stored
\* flight's available_seats by exactly the count.
C18_ServiceSeatChange ==
    (last.op \in {"FlightService.reserve_seats", "FlightService.cancel_reservation"}) =>
        LET reserve == last.op = "FlightService.reserve_seats"
            fits == IF reserve THEN last.pre.available_seats >= last.amt
                    ELSE last.pre.available_seats + last.amt <= last.pre.total_seats
            after == IF reserve THEN last.pre.available_seats - last.amt
                     ELSE last.pre.available_seats + last.amt
        IN IF last.pre = NoFlight
           THEN last.raised /\ last.err = "Flight not found" /\ ~exists(flights, last.id)
           ELSE IF last.amt <= 0
           THEN last.raised /\ flights[last.id] = last.pre
           ELSE IF ~fits
           THEN ~last.raised /\ last.ret = "False" /\ flights[last.id] = last.pre
           ELSE /\ ~last.raised
                /\ last.ret = "True"
                /\ flights[last.id] = [last.pre EXCEPT !.available_seats = after]

\* a release that did not fit, on a flight with seats reserved
C18_Witness ==
    /\ last.op = "FlightService.cancel_reservation"
    /\ last.ret = "False"
    /\ last.pre.available_seats < last.pre.total_seats
    /\ last.pre.available_seats + last.amt > last.pre.total_seats
    /\ flights[last.id] = last.pre
    /\ last.prev.op = "FlightService.reserve_seats"
    /\ last.prev.ret = "True"

(***************************************************************************)
(* FlightService.search_flights                                            *)
(***************************************************************************)

\* str.lower() on the letters the city names are written with
LowerChar(c) ==
    CASE c = "A" -> "a" [] c = "B" -> "b" [] c = "C" -> "c" [] c = "L" -> "l"
      [] c = "N" -> "n" [] c = "O" -> "o" [] c = "S" -> "s" [] c = "X" -> "x"
      [] c = "Y" -> "y" [] OTHER -> c

lower(s) == [i \in 1..Len(s) |-> LowerChar(s[i])]

\* repository.get_all(): the stored flights, by number, in the dict's order
get_all(st, keys) == keys

search_flights_case_sensitive(st, keys, origin, destination, min_available_seats) ==
    LET Matching(k) ==
            /\ st[k].origin = origin
            /\ st[k].destination = destination
            /\ st[k].available_seats >= min_available_seats
            /\ st[k].status = SCHEDULED
    IN SelectSeq(get_all(st, keys), Matching)

\* the flights found, by number, in the order of the list returned
search_flights(st, keys, origin, destination, min_available_seats) ==
    LET Matching(k) ==
            /\ lower(st[k].origin) = lower(origin)
            /\ lower(st[k].destination) = lower(destination)
            /\ st[k].available_seats >= min_available_seats
            /\ st[k].status = SCHEDULED
    IN SelectSeq(get_all(st, keys), Matching)

QueryOrigins == {City_NYC, City_nyc, City_BOS}
QueryDestinations == {City_LAX, City_Lax, City_NYC}
MinSeats == 1..MaxSeats

AddAnyFlight ==
    AddFlightOf(FlightNumbers, {City_nyc, City_BOS}, {City_Lax, City_BOS},
                {MaxSeats}, FlightStatus, {TRUE}, FALSE)

ReserveAnySeats == ServiceReserveSeats(FlightNumbers, FALSE)
CancelAnySeats == ServiceCancelReservation(FlightNumbers, FALSE)

SearchFlights ==
    \E origin \in QueryOrigins, destination \in QueryDestinations,
       min_seats \in MinSeats :
        /\ last' = [op |-> "search_flights", id |-> "", amt |-> min_seats,
                    raised |-> FALSE, err |-> "none", ret |-> "None",
                    pre |-> NoFlight, prev |-> NoPrev,
                    origin |-> origin, destination |-> destination,
                    found |-> search_flights(flights, flight_keys, origin,
                                             destination, min_seats)]
        /\ UNCHANGED <<flights, flight_keys, flight_frame>>

NextSearch ==
    \/ AddAnyFlight
    \/ ReserveAnySeats
    \/ CancelAnySeats
    \/ SearchFlights

SpecSearch == InitFlight /\ [][NextSearch]_vars

\* two names that differ at most in the case of their letters
SameIgnoringCase(a, b) ==
    /\ Len(a) = Len(b)
    /\ \A i \in 1..Len(a) :
           a[i] = b[i] \/ LowerChar(a[i]) = b[i] \/ a[i] = LowerChar(b[i])

\* C19: search_flights(origin, destination, min_seats) returns exactly the
\* stored flights, each once, whose origin and destination are the asked
\* ones up to case, that have at least min_seats seats available and whose
\* status is SCHEDULED; so a flight leaves the result when reservations take
\* it below min_seats and is back when they are cancelled.
C19_SearchReturnsMatches ==
    (last.op = "search_flights") =>
        /\ NoDuplicates(last.found)
        /\ Range(last.found) =
               {k \in DOMAIN flights :
                    /\ SameIgnoringCase(flights[k].origin, last.origin)
                    /\ SameIgnoringCase(flights[k].destination, last.destination)
                    /\ flights[k].available_seats >= last.amt
                    /\ flights[k].status = SCHEDULED}

\* two flights on the route, written in another case than the query: the
\* one with seats reserved below min_seats is left out, the other is found
C19_Witness ==
    /\ last.op = "search_flights"
    /\ Len(last.found) = 1
    /\ \E k \in DOMAIN flights \ Range(last.found) :
           /\ flights[k].origin # last.origin
           /\ SameIgnoringCase(flights[k].origin, last.origin)
           /\ SameIgnoringCase(flights[k].destination, last.destination)
           /\ flights[k].status = SCHEDULED
           /\ flights[k].available_seats < last.amt
    /\ \E k \in Range(last.found) : flights[k].origin # last.origin

\* C21: whatever the strategy, allocate_seats(passenger_count) raises exactly
\* when passenger_count <= 0 or passenger_count exceeds the size of the pool,
\* and then the pool is as before and no seat has been given out.
C21_InsufficientSeatsRaises ==
    [][last'.op = "allocate_seats" =>
           LET insufficient == \/ last'.amt <= 0
                               \/ last'.amt > Len(seating.available_seats)
           IN /\ last'.raised <=> insufficient
              /\ insufficient =>
                     /\ last'.err \in {"Seat count must be positive",
                                       "Not enough seats available"}
                     /\ last'.ret = <<>>
                     /\ seating' = seating
                     /\ allocated' = allocated]_vars

\* four seats asked of a SequentialAllocation holding three
C21_Witness ==
    /\ last.op = "allocate_seats"
    /\ last.id = "SEQUENTIAL"
    /\ Len(last.pre) = 3
    /\ last.amt = 4
    /\ last.raised
    /\ last.err = "Not enough seats available"
    /\ seating.available_seats = last.pre

\* the place of a seat in a list that holds it once
IndexOf(seq, x) == CHOOSE i \in 1..Len(seq) : seq[i] = x

\* a seat whose identifier ends in A or F, in either case
EndsInAF(seat) == seat[Len(seat)] \in {"A", "F", "a", "f"}

\* C22: WindowPriority.allocate_seats(N) returns N seats of the pool: the
\* window seats (identifier ending in A or F, in either case) first, in pool
\* order, and non-window seats, in pool order, only once every window seat
\* of the pool is taken.
C22_WindowSeatsFirst ==
    (last.op = "allocate_seats" /\ last.id = "WINDOW_PRIORITY" /\ ~last.raised) =>
        LET got == last.ret
            pool == last.pre
        IN /\ Len(got) = last.amt
           /\ NoDuplicates(got)
           /\ Range(got) \subseteq Range(pool)
           \* window seats before the others
           /\ \A i, j \in 1..Len(got) :
                  (EndsInAF(got[j]) /\ ~EndsInAF(got[i])) => j < i
           \* each kind in pool order, none of the kind skipped
           /\ \A i, j \in 1..Len(got) :
                  (i < j /\ EndsInAF(got[i]) = EndsInAF(got[j])) =>
                      IndexOf(pool, got[i]) < IndexOf(pool, got[j])
           /\ \A i \in 1..Len(got), k \in 1..Len(pool) :
                  (EndsInAF(pool[k]) = EndsInAF(got[i])
                   /\ k < IndexOf(pool, got[i])) => pool[k] \in Range(got)
           \* a non-window seat only when no window seat is left
           /\ (\E i \in 1..Len(got) : ~EndsInAF(got[i])) =>
                  \A k \in 1..Len(pool) : EndsInAF(pool[k]) => pool[k] \in Range(got)

\* from the pool 1B, 1f, 1A two seats: the window seats 1f and 1A, and then
\* the one seat left
C22_Witness ==
    /\ last.op = "allocate_seats"
    /\ last.id = "WINDOW_PRIORITY"
    /\ last.pre = <<S1B>>
    /\ last.ret = <<S1B>>
    /\ allocated = <<S1f, S1A, S1B>>

\* the leading run of digits of a seat identifier
RECURSIVE LeadingDigits(_)
LeadingDigits(seat) ==
    IF seat = <<>> \/ Head(seat) \notin Digit THEN <<>>
    ELSE <<Head(seat)>> \o LeadingDigits(Tail(seat))

\* the number a string of digits writes
RECURSIVE NumberOf(_)
NumberOf(digits) ==
    IF digits = <<>> THEN 0
    ELSE NumberOf(SubSeq(digits, 1, Len(digits) - 1)) * 10 + Ord(digits[Len(digits)])

RowOf(seat) == NumberOf(LeadingDigits(seat))

\* seat a is taken before seat b: a lower row, or the same row and earlier
\* in the pool
TakenBefore(pool, a, b) ==
    \/ RowOf(a) < RowOf(b)
    \/ RowOf(a) = RowOf(b) /\ IndexOf(pool, a) < IndexOf(pool, b)

\* C23: FamilyAllocation.allocate_seats(N) returns N seats of the pool taken
\* row by row in ascending numeric order of the row number, in pool order
\* within a row: every row-2 seat goes before any row-10 seat.
C23_RowsInNumericOrder ==
    (last.op = "allocate_seats" /\ last.id = "FAMILY" /\ ~last.raised) =>
        LET got == last.ret
            pool == last.pre
        IN /\ Len(got) = last.amt
           /\ NoDuplicates(got)
           /\ Range(got) \subseteq Range(pool)
           /\ \A i, j \in 1..Len(got) : i < j => TakenBefore(pool, got[i], got[j])
           /\ \A i \in 1..Len(got), k \in 1..Len(pool) :
                  pool[k] \notin Range(got) => TakenBefore(pool, got[i], pool[k])

\* with seats of rows 2 and 10 in the pool, one seat asked: the row-10 seat
\* is returned and the row-2 seat stays
C23_Witness ==
    /\ last.op = "allocate_seats"
    /\ last.id = "FAMILY"
    /\ last.pre = <<S2C, S10A>>
    /\ last.amt = 1
    /\ last.ret = <<S10A>>
    /\ seating.available_seats = <<S2C>>

(***************************************************************************)
(* A pricing strategy called directly: strategy.calculate_price(...) with  *)
(* the keyword argument its class takes (demo_ocp.py).  The function is    *)
(* pure; the arguments are drawn when the caller is set up.                *)
(***************************************************************************)

DepartureMonths == Months \cup {NoMonth, 13}
LoyaltyTiers == {NoTier, "SILVER", "gold", "PLATINUM", "VIP"}

\* the calls a caller may be about to make
PricingArgs ==
    [op : {"none"}, id : {""}, amt : NumPassengers, raised : {FALSE},
     err : {"none"}, ret : {0}, pre : {0},
     occupancy_rate : OccupancyRates, days_until_departure : DaysUntilDeparture,
     passenger_type : PassengerTypes, departure_month : DepartureMonths,
     loyalty_tier : LoyaltyTiers]

\* a strategy of any class, and the arguments of the call to come; only a
\* SeasonalPricing is given a departure_month, only a LoyaltyPricing a tier
InitStrategy ==
    /\ InitLifecycle
    /\ flights = EmptyStorage
    /\ flight_keys = <<>>
    /\ seating = [strategy |-> "SEQUENTIAL", available_seats |-> <<>>]
    /\ allocated = <<>>
    /\ seat_numbers = EmptyStorage
    /\ passenger_ids = EmptyStorage
    /\ pricing \in [strategy : PricingStrategies, base_price : BasePrices]
    /\ last \in {a \in PricingArgs :
                    /\ pricing.strategy # "SEASONAL" => a.departure_month = NoMonth
                    /\ pricing.strategy # "LOYALTY" => a.loyalty_tier = NoTier}

\* strategy.calculate_price with the class's own keyword argument
strategy_calculate_price(p, a) ==
    CASE p.strategy = "STANDARD" ->
             StandardPricing_calculate_price(p.base_price, a.amt,
                 a.occupancy_rate, a.days_until_departure, a.passenger_type)
      [] p.strategy = "DYNAMIC" ->
             DynamicPricing_calculate_price(p.base_price, a.amt,
                 a.occupancy_rate, a.days_until_departure, a.passenger_type)
      [] p.strategy = "SEASONAL" ->
             SeasonalPricing_calculate_price(p.base_price, a.amt,
                 a.occupancy_rate, a.days_until_departure, a.passenger_type,
                 a.departure_month)
      [] p.strategy = "LOYALTY" ->
             LoyaltyPricing_calculate_price(p.base_price, a.amt,
                 a.occupancy_rate, a.days_until_departure, a.passenger_type,
                 a.loyalty_tier)

CalculatePrice(strategy) ==
    /\ pricing.strategy = strategy
    /\ last.op = "none"
    /\ LET r == strategy_calculate_price(pricing, last)
       IN last' = [last EXCEPT !.op = "calculate_price", !.id = strategy,
                               !.raised = r.raised, !.err = r.err, !.ret = r.ret,
                               !.pre = pricing.base_price]
    /\ UNCHANGED <<lifecycle, others>>

StandardCalculatePrice == CalculatePrice("STANDARD")
DynamicCalculatePrice == CalculatePrice("DYNAMIC")
SeasonalCalculatePrice == CalculatePrice("SEASONAL")
LoyaltyCalculatePrice == CalculatePrice("LOYALTY")

NextStrategy ==
    \/ StandardCalculatePrice
    \/ DynamicCalculatePrice
    \/ SeasonalCalculatePrice
    \/ LoyaltyCalculatePrice

SpecStrategy == InitStrategy /\ [][NextStrategy]_vars

\* C24: whichever the strategy, calculate_price raises a validation error
\* and gives no price when num_passengers <= 0, or occupancy_rate is outside
\* 0..100, or days_until_departure < 0, whatever the other arguments; a
\* SeasonalPricing reports this before it looks at departure_month.
C24_InvalidInputsRaise ==
    (/\ last.op = "calculate_price"
     /\ \/ last.amt <= 0
        \/ last.occupancy_rate < 0
        \/ last.occupancy_rate > 100
        \/ last.days_until_departure < 0) =>
        /\ last.raised
        /\ last.ret = 0
        /\ last.err \in {"Number of passengers must be positive",
                         "Occupancy rate must be between 0 and 100",
                         "Days until departure cannot be negative"}

\* a SeasonalPricing given neither a valid day count nor a departure_month
\* reports the day count
C24_Witness ==
    /\ last.op = "calculate_price"
    /\ last.id = "SEASONAL"
    /\ last.amt > 0
    /\ last.occupancy_rate = 50
    /\ last.days_until_departure < 0
    /\ last.departure_month = NoMonth
    /\ last.raised
    /\ last.err = "Days until departure cannot be negative"

\* a SeasonalPricing call whose first three arguments validate_inputs accepts
ValidSeasonalCall ==
    /\ last.op = "calculate_price"
    /\ last.id = "SEASONAL"
    /\ last.amt > 0
    /\ 0 <= last.occupancy_rate
    /\ last.occupancy_rate <= 100
    /\ last.days_until_departure >= 0

\* base_price x table[month] x passenger multiplier, in ten-thousandths: the
\* table has Jan/Jul/Aug/Dec 1.3, Mar-Jun/Sep/Oct 1.15, Feb 0.85, Nov 1.0
SeasonalProduct ==
    LET table == <<130, 85, 115, 115, 115, 115, 130, 130, 115, 115, 100, 130>>
    IN last.pre * table[last.departure_month]
           * get_passenger_type_multiplier(last.passenger_type)

\* the month is missing or outside 1..12, and the call has raised for it
MonthRequired ==
    /\ last.raised
    /\ last.ret = 0
    /\ last.err = "Valid departure_month (1-12) is required for seasonal pricing"

\* C25 as stated: with valid inputs SeasonalPricing.calculate_price raises
\* when departure_month is missing or outside 1..12, and for a month in
\* 1..12 returns base_price x table[month] x passenger multiplier.
C25_SeasonalProduct ==
    ValidSeasonalCall =>
        IF last.departure_month \notin 1..12 THEN MonthRequired
        ELSE ~last.raised /\ last.ret * 100 = SeasonalProduct

\* C25 amended: ... for a month in 1..12 it returns that product rounded to
\* two decimals (the nearest hundredth, a half going to the even one).
C25_SeasonalRoundedProduct ==
    ValidSeasonalCall =>
        IF last.departure_month \notin 1..12 THEN MonthRequired
        ELSE /\ ~last.raised
             /\ LET off == last.ret * 100 - SeasonalProduct
                IN /\ 0 - 50 <= off
                   /\ off <= 50
                   /\ (off = 50 \/ off = 0 - 50) => last.ret % 2 = 0

\* February, a child, base price 250: 159.375 is returned as 159.38
C25_Witness ==
    /\ ValidSeasonalCall
    /\ last.departure_month = 2
    /\ last.passenger_type = "CHILD"
    /\ last.pre = 250
    /\ ~last.raised
    /\ last.ret = 15938

\* a DynamicPricing call whose arguments validate_inputs accepts
ValidDynamicCall ==
    /\ last.op = "calculate_price"
    /\ last.id = "DYNAMIC"
    /\ last.amt > 0
    /\ 0 <= last.occupancy_rate
    /\ last.occupancy_rate <= 100
    /\ last.days_until_departure >= 0

RepoIds == BookingIds \cup {""}
RepoEntities == {Booking(PENDING, 1, 0), Booking(CONFIRMED, 1, 0), Booking(CONFIRMED, 1, 1)}

\* no repository call made yet
NoRepoCall ==
    [op |-> "none", id |-> "", amt |-> 0, raised |-> FALSE, err |-> "none",
     ret |-> "None", pre |-> NoBooking, entity |-> NoBooking, live |-> {},
     latest |-> [k \in RepoIds |-> NoBooking]]

InitRepository ==
    /\ InitLifecycle
    /\ InitOthers
    /\ last = NoRepoCall

\* One call on the repository.  entity is the argument of add and update and
\* the value get returned; pre is what was stored under the id before.
RepositoryCall(op, id, entity, r, live, latest) ==
    /\ storage' = r.storage
    /\ last' = [op |-> op, id |-> id, amt |-> 0, raised |-> r.raised,
                err |-> r.err, ret |-> r.ret, pre |-> get(storage, id),
                entity |-> entity, live |-> live, latest |-> latest]
    /\ UNCHANGED <<priced, script, pc, aborted, others>>

RepoAdd ==
    \E id \in RepoIds, e \in RepoEntities :
        LET r == add(storage, id, e)
        IN RepositoryCall("add", id, e, r,
               IF r.raised THEN last.live ELSE last.live \cup {id},
               IF r.raised THEN last.latest ELSE [last.latest EXCEPT ![id] = e])

RepoGet ==
    \E id \in RepoIds :
        RepositoryCall("get", id, get(storage, id), SReturn(storage, "None"),
                       last.live, last.latest)

RepoUpdate ==
    \E id \in RepoIds, e \in RepoEntities :
        LET r == update(storage, id, e)
        IN RepositoryCall("update", id, e, r, last.live,
               IF r.raised THEN last.latest ELSE [last.latest EXCEPT ![id] = e])

RepoDelete ==
    \E id \in RepoIds :
        LET r == delete(storage, id)
        IN RepositoryCall("delete", id, NoBooking, r,
               IF r.raised THEN last.live ELSE last.live \ {id}, last.latest)

RepoExists ==
    \E id \in RepoIds :
        RepositoryCall("exists", id, NoBooking,
                       SReturn(storage, IF exists(storage, id) THEN "True" ELSE "False"),
                       last.live, last.latest)

NextRepository == RepoAdd \/ RepoGet \/ RepoUpdate \/ RepoDelete \/ RepoExists

SpecRepository == InitRepository /\ [][NextRepository]_vars

\* C27: repository key discipline.  add with an id that is stored raises and
\* leaves the stored entity unchanged; update and delete with an id that is
\* not stored raise and leave the store unchanged; exists(id) is true exactly
\* for the ids that were added and not since deleted; get(id) returns the
\* entity last added or updated under the id, and None when the id is absent.
C27_KeyDiscipline ==
    [][/\ (last'.op = "add" /\ last'.id \in last.live) =>
              /\ last'.raised
              /\ storage' = storage
              /\ get(storage', last'.id) = last.latest[last'.id]
       /\ (last'.op \in {"update", "delete"} /\ last'.id \notin last.live) =>
              /\ last'.raised
              /\ storage' = storage
       /\ last'.op = "exists" =>
              /\ ~last'.raised
              /\ (last'.ret = "True") <=> (last'.id \in last.live)
              /\ (last'.ret = "False") <=> (last'.id \notin last.live)
       /\ last'.op = "get" =>
              /\ ~last'.raised
              /\ last'.entity = IF last'.id \in last.live
                                THEN last.latest[last'.id] ELSE NoBooking]_vars

\* add was called with a stored id and a different entity: it raised and the
\* stored entity is still the one last put there
C27_Witness ==
    /\ last.op = "add"
    /\ last.id \in last.live
    /\ last.raised
    /\ last.err = "already exists"
    /\ last.entity # last.pre
    /\ get(storage, last.id) = last.pre
    /\ last.pre = last.latest[last.id]
    /\ \E other \in last.live : other # last.id

\* C28: pay_booking returns True only if the payment was recorded: whenever it
\* returns True the stored paid_amount is exactly amount higher than before
\* the call; a payment that record_payment rejected is not reported as True.
C28_TrueMeansRecorded ==
    (last.op = "pay_booking" /\ ~last.raised /\ last.ret = "True") =>
        Post.paid_amount = last.pre.paid_amount + last.amt

\* pay_booking returned True for an amount above the balance of a CONFIRMED
\* booking and nothing was recorded
C28_Witness ==
    /\ last.op = "pay_booking"
    /\ ~last.raised
    /\ last.ret = "True"
    /\ last.pre.status = CONFIRMED
    /\ last.pre.paid_amount + last.amt > last.pre.total_price
    /\ Post = last.pre

\* C29: failure atomicity of pay_booking: whenever it raises (an invalid
\* amount, or mark_as_paid rejected because the booking is not CONFIRMED) the
\* booking repository.get returns has the status and the paid_amount it had
\* before the call.
C29_RaiseLeavesBooking ==
    (last.op = "pay_booking" /\ last.raised) =>
        /\ Post.status = last.pre.status
        /\ Post.paid_amount = last.pre.paid_amount

\* pay_booking raised from mark_as_paid on a PENDING booking and the payment
\* stayed recorded
C29_Witness ==
    /\ last.op = "pay_booking"
    /\ last.raised
    /\ last.err = "Cannot mark as paid"
    /\ last.pre.status = PENDING
    /\ Post.status = PENDING
    /\ Post.paid_amount = last.pre.paid_amount + last.amt
    /\ last.amt > 0

\* C30: for a stored booking whose status is CANCELLED or COMPLETED, no
\* pay_booking call, returning or raising, changes its paid_amount.
C30_TerminalNotPayable ==
    (last.op = "pay_booking" /\ last.pre.status \in {CANCELLED, COMPLETED}) =>
        Post.paid_amount = last.pre.paid_amount

\* pay_booking returned True on a CANCELLED booking and raised its paid_amount
C30_Witness ==
    /\ last.op = "pay_booking"
    /\ last.pre.status = CANCELLED
    /\ ~last.raised
    /\ last.amt > 0
    /\ Post.status = CANCELLED
    /\ Post.paid_amount = last.pre.paid_amount + last.amt

====
